---- MODULE Spec2Model ----
(***************************************************************************)
(* HTML -> DOCX conversion service: the HTML normalizer of                 *)
(* app/preprocess.py and the converter / style patcher of                  *)
(* app/converter.py, with the /convert handler of app/main.py.             *)
(*                                                                         *)
(* Text (str and bytes alike) is a sequence of one-character strings; the  *)
(* regular expressions of preprocess.py are operators that return, for a   *)
(* text and a start position, the position just after the match (0 when    *)
(* the pattern does not match there) and the replacement re.sub inserts.   *)
(***************************************************************************)
EXTENDS Integers, Sequences, FiniteSets, TLC

\* ------------------------------------------------------------------------
\* Bounds of the model
\* ------------------------------------------------------------------------
MaxFrags == 3

\* ------------------------------------------------------------------------
\* Characters and string primitives (Python str / re semantics)
\* ------------------------------------------------------------------------
WS == {" ", "\t", "\n"}

Upper == <<"A", "B", "C", "D", "E", "F", "G", "H", "I", "J", "K", "L", "M", "N", "O", "P", "Q", "R", "S", "T", "U", "V", "W", "X", "Y", "Z">>

Alphabet == <<"a", "b", "c", "d", "e", "f", "g", "h", "i", "j", "k", "l", "m", "n", "o", "p", "q", "r", "s", "t", "u", "v", "w", "x", "y", "z">>

Letters == {Alphabet[k] : k \in 1..26}

Digits == {"0","1","2","3","4","5","6","7","8","9"}

ToLower == [c \in {Upper[k] : k \in 1..26} |-> Alphabet[CHOOSE k \in 1..26 : Upper[k] = c]]

\* f[c] where f is defined, c elsewhere
Image(f, c) == IF c \in DOMAIN f THEN f[c] ELSE c

\* str.lower() of one character
Lower(c) == Image(ToLower, c)

LowerText(s) == [k \in 1..Len(s) |-> Lower(s[k])]

\* the least element of S, d when S is empty
First(S, d) ==
  LET Least[T \in SUBSET Int] ==
        IF T = {} THEN d ELSE CHOOSE x \in T : \A y \in T : x <= y
  IN  Least[S]

\* the greatest element of S, d when S is empty
Last(S, d) ==
  LET Greatest[T \in SUBSET Int] ==
        IF T = {} THEN d ELSE CHOOSE x \in T : \A y \in T : x >= y
  IN  Greatest[S]

\* s[i:i+len(lit)] == lit
HasAt(s, i, lit) ==
  /\ i >= 1
  /\ i + Len(lit) - 1 <= Len(s)
  /\ \A k \in 1..Len(lit) : s[i + k - 1] = lit[k]

\* the same under re.IGNORECASE; lit is written in lower case
HasAtI(s, i, lit) ==
  /\ i >= 1
  /\ i + Len(lit) - 1 <= Len(s)
  /\ \A k \in 1..Len(lit) : Lower(s[i + k - 1]) = lit[k]

\* s.find(lit, i), 1-based, 0 when absent
Find(s, lit, i) == First({j \in i..(Len(s) - Len(lit) + 1) : HasAt(s, j, lit)}, 0)

FindI(s, lit, i) == First({j \in i..(Len(s) - Len(lit) + 1) : HasAtI(s, j, lit)}, 0)

\* lit in s
Contains(s, lit) == Find(s, lit, 1) # 0

\* first position >= i holding a character of cs, 0 when there is none
FindChar(s, cs, i) == First({j \in i..Len(s) : s[j] \in cs}, 0)

\* position just after the run of characters of cs that starts at i
SkipRun(s, cs, i) == First({j \in i..Len(s) : s[j] \notin cs}, Len(s) + 1)

\* position of the first character of stop at or after i, len(s)+1 when none
SkipUntil(s, stop, i) == First({j \in i..Len(s) : s[j] \in stop}, Len(s) + 1)

\* the position after g, 0 when g is 0 (no match)
After(g) == IF g = 0 THEN 0 ELSE g + 1

\* the start of the first lit (IGNORECASE) after position g, 0 when there is
\* none or g is 0
Closing(s, lit, g) == IF g = 0 THEN 0 ELSE FindI(s, lit, g + 1)

\* s[a:b] with 1-based inclusive a and exclusive b
Slice(s, a, b) == IF b <= a THEN << >> ELSE SubSeq(s, a, b - 1)

\* len(s) - len(s.lstrip())
LStripLen(s) == SkipRun(s, WS, 1) - 1

\* len(s) - len(s.rstrip())
RStripLen(s) == Len(s) - Last({j \in 1..Len(s) : s[j] \notin WS}, 0)

\* str.strip() / bytes.strip()
Strip(s) == Slice(s, SkipRun(s, WS, 1), Last({j \in 1..Len(s) : s[j] \notin WS}, 0) + 1)

LStrip(s) == Slice(s, SkipRun(s, WS, 1), Len(s) + 1)

NoMatch == [end |-> 0, repl |-> << >>]

Hit(e, r) == [end |-> e, repl |-> r]

\* a match that ends n - 1 characters after position c and is replaced by
\* "", no match when c is 0
Removed(c, n) == IF c = 0 THEN NoMatch ELSE Hit(c + n, << >>)

\* pattern.sub(repl, s): the non-overlapping matches, leftmost first, each
\* replaced; pat(s, j) is the match of the pattern at position j
Sub(pat(_, _), s) ==
  LET From[i \in 1..(Len(s) + 1)] ==
        LET Put(j, m) == Slice(s, i, j) \o m.repl \o From[m.end]
            At[j \in 0..Len(s)] ==
              IF j = 0 THEN Slice(s, i, Len(s) + 1) ELSE Put(j, pat(s, j))
        IN  At[First({j \in i..Len(s) : pat(s, j).end # 0}, 0)]
  IN  IF s = << >> THEN s ELSE From[1]

\* html.unescape for the character references lt, gt and amp (with the
\* HTML5 forms that lack the semicolon); other references do not occur in
\* the texts of this model.
EntityAt(s, i) ==
  IF i > Len(s) \/ s[i] # "&" THEN NoMatch
  ELSE IF HasAt(s, i + 1, <<"a", "m", "p", ";">>) \/ HasAt(s, i + 1, <<"A", "M", "P", ";">>) THEN Hit(i + 5, <<"&">>)
  ELSE IF HasAt(s, i + 1, <<"l", "t", ";">>) \/ HasAt(s, i + 1, <<"L", "T", ";">>) THEN Hit(i + 4, <<"<">>)
  ELSE IF HasAt(s, i + 1, <<"g", "t", ";">>) \/ HasAt(s, i + 1, <<"G", "T", ";">>) THEN Hit(i + 4, <<">">>)
  ELSE IF HasAt(s, i + 1, <<"a", "m", "p">>) \/ HasAt(s, i + 1, <<"A", "M", "P">>) THEN Hit(i + 4, <<"&">>)
  ELSE IF HasAt(s, i + 1, <<"l", "t">>) \/ HasAt(s, i + 1, <<"L", "T">>) THEN Hit(i + 3, <<"<">>)
  ELSE IF HasAt(s, i + 1, <<"g", "t">>) \/ HasAt(s, i + 1, <<"G", "T">>) THEN Hit(i + 3, <<">">>)
  ELSE NoMatch

Unescape(s) == Sub(EntityAt, s)

\* ------------------------------------------------------------------------
\* app/preprocess.py: patterns
\* ------------------------------------------------------------------------

\* <!DOCTYPE[^>]*>   (IGNORECASE), replaced by ""
DOCTYPE_PATTERN(s, i) ==
  IF HasAtI(s, i, <<"<", "!", "d", "o", "c", "t", "y", "p", "e">>) THEN Removed(FindChar(s, {">"}, i + 9), 1)
  ELSE NoMatch

\* "&gt;" at position a (IGNORECASE): the position of its ";", else 0
GtEntity(s, a) == IF a # 0 /\ HasAtI(s, a, <<"&", "g", "t", ";">>) THEN a + 3 ELSE 0

\* &lt;!DOCTYPE[^&]*&gt;   (IGNORECASE), replaced by ""
ENCODED_DOCTYPE_PATTERN(s, i) ==
  IF HasAtI(s, i, <<"&", "l", "t", ";", "!", "d", "o", "c", "t", "y", "p", "e">>)
  THEN Removed(GtEntity(s, FindChar(s, {"&"}, i + 12)), 1)
  ELSE NoMatch

\* <style[^>]*>.*?</style>   (IGNORECASE | DOTALL), replaced by ""
STYLE_BLOCK_PATTERN(s, i) ==
  IF HasAtI(s, i, <<"<", "s", "t", "y", "l", "e">>)
  THEN Removed(Closing(s, <<"<", "/", "s", "t", "y", "l", "e", ">">>, FindChar(s, {">"}, i + 6)), 8)
  ELSE NoMatch

\* &lt;style[^&]*&gt;.*?&lt;/style&gt;   (IGNORECASE | DOTALL), replaced by ""
ENCODED_STYLE_PATTERN(s, i) ==
  IF HasAtI(s, i, <<"&", "l", "t", ";", "s", "t", "y", "l", "e">>)
  THEN Removed(Closing(s, <<"&", "l", "t", ";", "/", "s", "t", "y", "l", "e", "&", "g", "t", ";">>, GtEntity(s, FindChar(s, {"&"}, i + 9))), 14)
  ELSE NoMatch

\* The opening tag of MATH_SPAN_PATTERN,
\*   <span[^>]*class="[^"]*math-tex[^"]*"[^>]*>
\* for an attribute that starts at position a: the position of the closing
\* ">" of the tag, 0 when the tag does not match with that attribute.
MathSpanTagClose(s, i, a) ==
  LET Value(v, q) ==
        IF q = 0 \/ FindI(Slice(s, v, q), <<"m", "a", "t", "h", "-", "t", "e", "x">>, 1) = 0 THEN 0
        ELSE FindChar(s, {">"}, q + 1)
  IN  IF ~HasAtI(s, a, <<"c", "l", "a", "s", "s", "=", "\"">>) \/ (\E k \in (i + 5)..(a - 1) : s[k] = ">")
      THEN 0
      ELSE Value(a + 7, FindChar(s, {"\""}, a + 7))

\* MATH_SPAN_PATTERN (IGNORECASE | DOTALL); group 1 is the text between the
\* opening tag and the first </span> after it.  [^>]* is greedy, so the
\* last class attribute that lets the whole pattern match is the one used.
MathSpanAttr(s, i) ==
  IF ~HasAtI(s, i, <<"<", "s", "p", "a", "n">>) THEN 0
  ELSE Last({a \in (i + 5)..Len(s) :
               Closing(s, <<"<", "/", "s", "p", "a", "n", ">">>, MathSpanTagClose(s, i, a)) # 0}, 0)

\* _replace that adds the delimiters in every case
_replace_always_wrapped(inner) == <<"\\", "(">> \o inner \o <<"\\", ")">>

\* normalize_math_spans._replace, for the stripped group 1
_replace(inner) ==
  IF HasAt(inner, 1, <<"$">>) \/ HasAt(inner, 1, <<"\\", "(">>) THEN inner
  ELSE <<"\\", "(">> \o inner \o <<"\\", ")">>

MATH_SPAN_PATTERN(s, i) ==
  LET Group(g, c) ==
        IF c = 0 THEN NoMatch ELSE Hit(c + 7, _replace(Strip(Slice(s, g + 1, c))))
      Tag(g) == Group(g, Closing(s, <<"<", "/", "s", "p", "a", "n", ">">>, g))
  IN  Tag(MathSpanTagClose(s, i, MathSpanAttr(s, i)))

\* >([^<>]+)<   group 1 is the text node; the position of its closing "<"
TextNodeEnd(s, i) ==
  LET Node(r) == IF r = 0 \/ r = i + 1 \/ s[r] # "<" THEN 0 ELSE r
  IN  IF i > Len(s) \/ s[i] # ">" THEN 0
      ELSE Node(FindChar(s, {"<", ">"}, i + 1))

LatexKeywords ==
  { <<"f", "r", "a", "c">>, <<"t", "i", "m", "e", "s">>, <<"s", "q", "r", "t">>, <<"s", "u", "m">>, <<"p", "r", "o", "d">>, <<"i", "n", "t">>, <<"l", "e", "f", "t">>, <<"r", "i", "g", "h", "t">>, <<"b", "i", "n", "o", "m">>,
    <<"o", "v", "e", "r">>, <<"c", "d", "o", "t">>, <<"d", "o", "t", "s">>, <<"l", "d", "o", "t", "s">>, <<"s", "i", "n">>, <<"c", "o", "s">>, <<"t", "a", "n">>, <<"l", "o", "g">>, <<"l", "n">>, <<"p", "i">>,
    <<"a", "l", "p", "h", "a">>, <<"b", "e", "t", "a">>, <<"g", "a", "m", "m", "a">>, <<"t", "h", "e", "t", "a">> }

\* LATEX_KEYWORD_PATTERN.search(s)   (IGNORECASE)
LATEX_KEYWORD_PATTERN(s) ==
  \E j \in 1..Len(s) :
    s[j] = "\\" /\ \E kw \in LatexKeywords : HasAtI(s, j + 1, kw)

PROMOTABLE_TAGS ==
  { <<"a">>, <<"a", "b", "b", "r">>, <<"a", "r", "t", "i", "c", "l", "e">>, <<"a", "s", "i", "d", "e">>, <<"b">>, <<"b", "l", "o", "c", "k", "q", "u", "o", "t", "e">>, <<"b", "o", "d", "y">>, <<"b", "r">>,
    <<"b", "u", "t", "t", "o", "n">>, <<"c", "a", "p", "t", "i", "o", "n">>, <<"c", "o", "d", "e">>, <<"c", "o", "l">>, <<"c", "o", "l", "g", "r", "o", "u", "p">>, <<"d", "d">>, <<"d", "e", "t", "a", "i", "l", "s">>, <<"d", "i", "v">>,
    <<"d", "l">>, <<"d", "t">>, <<"e", "m">>, <<"f", "i", "g", "c", "a", "p", "t", "i", "o", "n">>, <<"f", "i", "g", "u", "r", "e">>, <<"f", "o", "o", "t", "e", "r">>, <<"f", "o", "r", "m">>, <<"h", "1">>, <<"h", "2">>,
    <<"h", "3">>, <<"h", "4">>, <<"h", "5">>, <<"h", "6">>, <<"h", "e", "a", "d">>, <<"h", "e", "a", "d", "e", "r">>, <<"h", "r">>, <<"h", "t", "m", "l">>, <<"l", "i", "n", "k">>, <<"m", "e", "t", "a">>,
    <<"i", "m", "g">>, <<"i", "n", "p", "u", "t">>, <<"l", "a", "b", "e", "l">>, <<"l", "e", "g", "e", "n", "d">>, <<"l", "i">>, <<"m", "a", "i", "n">>, <<"m", "a", "t", "h">>, <<"m", "f", "r", "a", "c">>, <<"m", "i">>,
    <<"m", "n">>, <<"m", "o">>, <<"m", "r", "o", "w">>, <<"m", "s">>, <<"m", "s", "q", "r", "t">>, <<"m", "s", "u", "b">>, <<"m", "s", "u", "b", "s", "u", "p">>, <<"m", "s", "u", "p">>, <<"m", "t", "e", "x", "t">>,
    <<"m", "s", "p", "a", "c", "e">>, <<"n", "a", "v">>, <<"o", "l">>, <<"o", "p", "t", "i", "o", "n">>, <<"p">>, <<"p", "r", "e">>, <<"t", "i", "t", "l", "e">>, <<"s", "e", "c", "t", "i", "o", "n">>,
    <<"s", "e", "l", "e", "c", "t">>, <<"s", "m", "a", "l", "l">>, <<"s", "p", "a", "n">>, <<"s", "t", "r", "o", "n", "g">>, <<"s", "u", "b">>, <<"s", "u", "m", "m", "a", "r", "y">>, <<"s", "u", "p">>, <<"t", "a", "b", "l", "e">>,
    <<"t", "b", "o", "d", "y">>, <<"t", "d">>, <<"t", "e", "x", "t", "a", "r", "e", "a">>, <<"t", "f", "o", "o", "t">>, <<"t", "h">>, <<"t", "h", "e", "a", "d">>, <<"t", "r">>, <<"u">>, <<"u", "l">> }

\* promote_escaped_html._promote, for group 0 and the tag group
_promote(match, tag) ==
  LET Body(cleaned) ==
        IF ~HasAt(cleaned, 1, <<"<">>) THEN match
        ELSE IF cleaned[Len(cleaned)] = ">" THEN cleaned
        ELSE cleaned \o <<">">>
  IN  IF LowerText(tag) \notin PROMOTABLE_TAGS THEN match
      ELSE Body(Strip(Unescape(match)))

\* &lt;(/?)\s*([A-Za-z][A-Za-z0-9:-]*)([^<>]*?)&gt;   (IGNORECASE)
\* t and u delimit the tag group, f is the first "&gt;" after it, b the first
\* "<" or ">" after it
ESCAPED_TAG_PATTERN(s, i) ==
  LET End(t, u, f, b) ==
        IF f = 0 \/ (b # 0 /\ b < f) THEN NoMatch
        ELSE Hit(f + 4, _promote(Slice(s, i, f + 4), Slice(s, t, u)))
      Rest(t, u) == End(t, u, FindI(s, <<"&", "g", "t", ";">>, u), FindChar(s, {"<", ">"}, u))
      Name(t) ==
        IF t <= Len(s) /\ Lower(s[t]) \in Letters
        THEN Rest(t, SkipRun(LowerText(s), Letters \cup Digits \cup {":", "-"}, t))
        ELSE NoMatch
  IN  IF ~HasAtI(s, i, <<"&", "l", "t", ";">>) THEN NoMatch
      ELSE Name(SkipRun(s, WS, IF HasAt(s, i + 4, <<"/">>) THEN i + 5 ELSE i + 4))

\* EMBEDDED_HTML_PATTERN.search(s):  &lt;html.*?&lt;/html&gt;
\* (IGNORECASE | DOTALL); the start of the leftmost match, 0 when none
EMBEDDED_HTML_PATTERN(s) ==
  First({j \in 1..Len(s) :
           HasAtI(s, j, <<"&", "l", "t", ";", "h", "t", "m", "l">>) /\ FindI(s, <<"&", "l", "t", ";", "/", "h", "t", "m", "l", "&", "g", "t", ";">>, j + 8) # 0}, 0)

\* </?span[^>]*>   (IGNORECASE), replaced by ""
MSO_SPAN_PATTERN(s, i) ==
  LET Name(p) ==
        IF HasAtI(s, p, <<"s", "p", "a", "n">>) THEN Removed(FindChar(s, {">"}, p + 4), 1)
        ELSE NoMatch
  IN  IF i > Len(s) \/ s[i] # "<" THEN NoMatch
      ELSE Name(IF HasAt(s, i + 1, <<"/">>) THEN i + 2 ELSE i + 1)

\* the pattern with mandatory quotes:  \sclass="(?:Mso[^"\s>]*)"
MSO_CLASS_PATTERN_quoted(s, i) ==
  LET End(r) == IF HasAt(s, r, <<"\"">>) THEN Hit(r + 1, << >>) ELSE NoMatch
  IN  IF i > Len(s) \/ s[i] \notin WS \/ ~HasAtI(s, i + 1, <<"c", "l", "a", "s", "s", "=", "\"", "m", "s", "o">>) THEN NoMatch
      ELSE End(SkipUntil(s, WS \cup {"\"", ">"}, i + 11))

\* \sclass="?(?:Mso[^"\s>]*)"?   (IGNORECASE), replaced by ""
MSO_CLASS_PATTERN(s, i) ==
  LET End(r) == Hit(IF HasAt(s, r, <<"\"">>) THEN r + 1 ELSE r, << >>)
      Value(p) ==
        IF HasAtI(s, p, <<"m", "s", "o">>) THEN End(SkipUntil(s, WS \cup {"\"", ">"}, p + 3))
        ELSE NoMatch
  IN  IF i > Len(s) \/ s[i] \notin WS \/ ~HasAtI(s, i + 1, <<"c", "l", "a", "s", "s", "=">>) THEN NoMatch
      ELSE Value(IF HasAt(s, i + 7, <<"\"">>) THEN i + 8 ELSE i + 7)

\* Names of the elements the Word-export patterns treat as blocks.
\* (h[1-6] is written out.)
BlockNames ==
  { <<"h", "t", "m", "l">>, <<"h", "e", "a", "d">>, <<"b", "o", "d", "y">>, <<"d", "i", "v">>, <<"s", "e", "c", "t", "i", "o", "n">>, <<"a", "r", "t", "i", "c", "l", "e">>, <<"a", "s", "i", "d", "e">>, <<"n", "a", "v">>,
    <<"m", "a", "i", "n">>, <<"f", "i", "g", "u", "r", "e">>, <<"f", "i", "g", "c", "a", "p", "t", "i", "o", "n">>, <<"h", "1">>, <<"h", "2">>, <<"h", "3">>, <<"h", "4">>, <<"h", "5">>, <<"h", "6">>,
    <<"u", "l">>, <<"o", "l">>, <<"l", "i">>, <<"t", "a", "b", "l", "e">>, <<"t", "h", "e", "a", "d">>, <<"t", "b", "o", "d", "y">>, <<"t", "f", "o", "o", "t">>, <<"t", "r">>, <<"t", "d">>, <<"t", "h">>,
    <<"b", "l", "o", "c", "k", "q", "u", "o", "t", "e">>, <<"p", "r", "e">> }

MetaNames == { <<"m", "e", "t", "a">>, <<"t", "i", "t", "l", "e">>, <<"l", "i", "n", "k">> }

\* the element list of the substitution at preprocess.py:203
LeadingNames ==
  { <<"m", "e", "t", "a">>, <<"t", "i", "t", "l", "e">>, <<"d", "i", "v">>, <<"s", "e", "c", "t", "i", "o", "n">>, <<"a", "r", "t", "i", "c", "l", "e">>, <<"a", "s", "i", "d", "e">>, <<"n", "a", "v">>, <<"m", "a", "i", "n">>,
    <<"f", "i", "g", "u", "r", "e">>, <<"f", "i", "g", "c", "a", "p", "t", "i", "o", "n">>, <<"h", "1">>, <<"h", "2">>, <<"h", "3">>, <<"h", "4">>, <<"h", "5">>, <<"h", "6">>, <<"u", "l">>, <<"o", "l">>,
    <<"l", "i">>, <<"t", "a", "b", "l", "e">>, <<"t", "h", "e", "a", "d">>, <<"t", "b", "o", "d", "y">>, <<"t", "f", "o", "o", "t">>, <<"t", "r">>, <<"t", "d">>, <<"t", "h">>,
    <<"b", "l", "o", "c", "k", "q", "u", "o", "t", "e">>, <<"p", "r", "e">>, <<"b", "o", "d", "y">>, <<"h", "t", "m", "l">> }

\* the element list of the substitution at preprocess.py:209
ClosingNames ==
  { <<"d", "i", "v">>, <<"s", "e", "c", "t", "i", "o", "n">>, <<"a", "r", "t", "i", "c", "l", "e">>, <<"a", "s", "i", "d", "e">>, <<"n", "a", "v">>, <<"m", "a", "i", "n">>, <<"f", "i", "g", "u", "r", "e">>,
    <<"f", "i", "g", "c", "a", "p", "t", "i", "o", "n">>, <<"u", "l">>, <<"o", "l">>, <<"t", "a", "b", "l", "e">>, <<"t", "b", "o", "d", "y">>, <<"t", "f", "o", "o", "t">>, <<"t", "h", "e", "a", "d">>, <<"t", "r">>,
    <<"t", "d">>, <<"t", "h">>, <<"b", "l", "o", "c", "k", "q", "u", "o", "t", "e">>, <<"p", "r", "e">>, <<"b", "o", "d", "y">>, <<"h", "t", "m", "l">> }

\* <(?:names)[^>]*> at position i: position just after the tag, else 0
OpenTagEnd(s, i, names) ==
  IF HasAt(s, i, <<"<">>) /\ (\E n \in names : HasAtI(s, i + 1, n))
  THEN After(FindChar(s, {">"}, i + 1))
  ELSE 0

\* </(?:names)> at position i: position just after the tag, else 0
CloseTagEnd(s, i, names) ==
  IF ~HasAt(s, i, <<"<", "/">>) THEN 0
  ELSE First({i + 3 + Len(n) :
                n \in {m \in names : HasAtI(s, i + 2, m) /\ HasAt(s, i + 2 + Len(m), <<">">>)}},
             0)

\* </?(?:names)[^>]*> at position i: position just after the tag, else 0
AnyTagEnd(s, i, names) ==
  LET Name(p) ==
        IF \E n \in names : HasAtI(s, p, n) THEN After(FindChar(s, {">"}, p)) ELSE 0
  IN  IF ~HasAt(s, i, <<"<">>) THEN 0
      ELSE Name(IF HasAt(s, i + 1, <<"/">>) THEN i + 2 ELSE i + 1)

\* \s*</p> at position i (IGNORECASE): position just after it, else 0
WsCloseP(s, i) ==
  LET At(q) == IF HasAtI(s, q, <<"<", "/", "p", ">">>) THEN q + 4 ELSE 0
  IN  At(SkipRun(s, WS, i))

\* group 1 is s[p:e] (none when e is 0), \s*</p> follows it; the match is
\* replaced by group 1
GroupThenCloseP(s, p, e) ==
  IF e = 0 THEN NoMatch
  ELSE IF WsCloseP(s, e) = 0 THEN NoMatch
  ELSE Hit(WsCloseP(s, e), Slice(s, p, e))

\* BLOCK_IN_P_PATTERN (IGNORECASE | DOTALL), replaced by group 1:
\*   <p>\s*(<(?:blocks)[^>]*>.*?</(?:blocks)>)\s*</p>
\* p is the start of group 1, o the end of its opening tag; .*? stops at the
\* first closing tag that \s*</p> follows
BLOCK_IN_P_PATTERN(s, i) ==
  LET Inner(p, o) ==
        IF o = 0 THEN NoMatch
        ELSE GroupThenCloseP(s, p,
               First({e \in {CloseTagEnd(s, c, BlockNames) : c \in o..Len(s)} :
                        e # 0 /\ WsCloseP(s, e) # 0}, 0))
      Open(p) == Inner(p, OpenTagEnd(s, p, BlockNames))
  IN  IF ~HasAtI(s, i, <<"<", "p", ">">>) THEN NoMatch
      ELSE Open(SkipRun(s, WS, i + 3))

\* (</?(?:block names)[^>]*>)\s*</p>   (IGNORECASE), replaced by group 1
BlockThenCloseP(s, i) == GroupThenCloseP(s, i, AnyTagEnd(s, i, BlockNames))

\* (</?(?:meta|title|link)[^>]*>)\s*</p>   (IGNORECASE), replaced by group 1
MetaThenCloseP(s, i) == GroupThenCloseP(s, i, AnyTagEnd(s, i, MetaNames))

\* <p>\s*</p>   (case-sensitive), replaced by ""
EmptyP(s, i) ==
  LET At(q) == IF HasAt(s, q, <<"<", "/", "p", ">">>) THEN Hit(q + 4, << >>) ELSE NoMatch
  IN  IF ~HasAt(s, i, <<"<", "p", ">">>) THEN NoMatch
      ELSE At(SkipRun(s, WS, i + 3))

\* <p>\s*(<(?:leading names)[^>]*>)   (IGNORECASE), replaced by group 1
OpenPThenTag(s, i) ==
  LET Tag(p, e) == IF e = 0 THEN NoMatch ELSE Hit(e, Slice(s, p, e))
      Open(p) == Tag(p, OpenTagEnd(s, p, LeadingNames))
  IN  IF ~HasAtI(s, i, <<"<", "p", ">">>) THEN NoMatch
      ELSE Open(SkipRun(s, WS, i + 3))

\* (</(?:closing names)>)\s*</p>   (IGNORECASE), replaced by group 1
CloseTagThenCloseP(s, i) == GroupThenCloseP(s, i, CloseTagEnd(s, i, ClosingNames))

\* str.replace(old, new)
Replace(old, new, s) ==
  LET Literal(t, i) == IF HasAt(t, i, old) THEN Hit(i + Len(old), new) ELSE NoMatch
  IN  Sub(Literal, s)

SpanOpen == <<"<", "s", "p", "a", "n", " ", "c", "l", "a", "s", "s", "=", "\"", "m", "a", "t", "h", "-", "t", "e", "x", "\"", ">">>

SpanClose == <<"<", "/", "s", "p", "a", "n", ">">>

\* wrap_bare_latex_in_text without the bookkeeping of the whitespace borders
wrap_bare_latex_in_text_unpadded(text) ==
  IF LATEX_KEYWORD_PATTERN(Strip(text)) THEN SpanOpen \o text \o SpanClose ELSE text

wrap_bare_latex_in_text(text) ==
  LET \* the early returns, for stripped                        (249-256)
      Plain(stripped) ==
        \/ stripped = << >>
        \/ Contains(stripped, <<"\\", "(">>) \/ Contains(stripped, <<"\\", "[">>)
        \/ Contains(stripped, <<"$">>) \/ Contains(stripped, <<"<", "l", "a", "t", "e", "x", ">">>)
        \/ ~Contains(stripped, <<"\\">>)
        \/ ~LATEX_KEYWORD_PATTERN(stripped)
      \* the test on the text after the colon                    (265)
      Formula(suffix) ==
        /\ Contains(suffix, <<"\\">>)
        /\ ~Contains(suffix, <<"\\", "(">>) /\ ~Contains(suffix, <<"\\", "[">>)
        /\ ~Contains(suffix, <<"<", "s", "p", "a", "n">>)
      \* prefix:suffix with the formula of the suffix wrapped    (266-270)
      Labelled(prefix, suffix) ==
        prefix \o <<":">> \o Slice(suffix, 1, LStripLen(suffix) + 1)
          \o SpanOpen \o Strip(LStrip(suffix)) \o SpanClose
      Split(core, colon) ==
        IF colon # 0 /\ Formula(Slice(core, colon + 1, Len(core) + 1))
        THEN Labelled(Slice(core, 1, colon), Slice(core, colon + 1, Len(core) + 1))
        ELSE SpanOpen \o core \o SpanClose
      Wrap(core) == Split(core, Find(core, <<":">>, 1))
      Pad(leading_ws, trailing_ws) ==
        Slice(text, 1, leading_ws + 1)
          \o Wrap(Slice(text, leading_ws + 1, Len(text) - trailing_ws + 1))
          \o Slice(text, Len(text) - trailing_ws + 1, Len(text) + 1)
  IN  IF Plain(Strip(text)) THEN text
      ELSE Pad(LStripLen(text), RStripLen(text))

\* >([^<>]+)<  replaced by ">" + wrap_bare_latex_in_text(group 1) + "<"
TEXT_NODE_PATTERN(s, i) ==
  LET Node(r) ==
        IF r = 0 THEN NoMatch
        ELSE Hit(r + 1, <<">">> \o wrap_bare_latex_in_text(Slice(s, i + 1, r)) \o <<"<">>)
  IN  Node(TextNodeEnd(s, i))

\* ------------------------------------------------------------------------
\* app/preprocess.py: functions
\* ------------------------------------------------------------------------
normalize_math_spans(html) == Sub(MATH_SPAN_PATTERN, html)

promote_escaped_html(html) ==
  IF ~Contains(html, <<"&", "l", "t", ";">>) \/ ~Contains(html, <<"&", "g", "t", ";">>) THEN html
  ELSE Sub(ESCAPED_TAG_PATTERN, html)

strip_html_boilerplate(html) ==
  Sub(ENCODED_STYLE_PATTERN,
      Sub(STYLE_BLOCK_PATTERN,
          Sub(ENCODED_DOCTYPE_PATTERN,
              Sub(DOCTYPE_PATTERN, html))))

\* returns the working text and the embedded_found flag
extract_embedded_html(html) ==
  LET At(i) ==
        IF i = 0 THEN [text |-> html, found |-> FALSE]
        ELSE [text |-> Unescape(Slice(html, i, FindI(html, <<"&", "l", "t", ";", "/", "h", "t", "m", "l", "&", "g", "t", ";">>, i + 8) + 13)),
              found |-> TRUE]
  IN  At(EMBEDDED_HTML_PATTERN(html))

RECURSIVE _strip_wrappers(_)
_strip_wrappers(value) ==
  LET Again(new_value) ==
        IF new_value = value THEN value ELSE _strip_wrappers(new_value)
  IN  Again(Sub(BLOCK_IN_P_PATTERN, value))

simplify_word_export(html) ==
  IF ~Contains(html, <<"M", "s", "o">>) /\ ~Contains(html, <<"m", "s", "o", "-">>) THEN html
  ELSE
    Replace(<<"<", "/", "p", ">", "<", "/", "p", ">">>, <<"<", "/", "p", ">">>,
    Replace(<<"<", "p", ">", "<", "p">>, <<"<", "p">>,
    Replace(<<"<", "p", ">", "<", "/", "h", "t", "m", "l", ">">>, <<"<", "/", "h", "t", "m", "l", ">">>,
    Replace(<<"<", "p", ">", "<", "/", "b", "o", "d", "y", ">">>, <<"<", "/", "b", "o", "d", "y", ">">>,
    Replace(<<"<", "p", ">", "<", "/", "h", "e", "a", "d", ">">>, <<"<", "/", "h", "e", "a", "d", ">">>,
    Replace(<<"<", "p", ">", "<", "/", "d", "i", "v", ">">>, <<"<", "/", "d", "i", "v", ">">>,
    Sub(CloseTagThenCloseP,
    Sub(OpenPThenTag,
    Sub(EmptyP,
    Sub(MetaThenCloseP,
    Sub(BlockThenCloseP,
    _strip_wrappers(
    Sub(MSO_CLASS_PATTERN,
    Sub(MSO_SPAN_PATTERN, html))))))))))))))

wrap_bare_latex_sequences(html) == Sub(TEXT_NODE_PATTERN, html)

\* bytes.decode("utf-8", errors="ignore"): bytes that are not valid UTF-8
\* are dropped.  BadByte stands for such a byte; every other character of
\* the model is ASCII and decodes and encodes to itself.
BadByte == "\\xff"

Decode(payload) == SelectSeq(payload, LAMBDA b : b # BadByte)

\* text.encode("utf-8-sig"): a byte-order mark in front of the text
Encode_with_bom(text) == <<"\\ufeff">> \o text

Encode(text) == text

prepare_html(payload, promote_entities) ==
  LET Finish(text) == Encode(normalize_math_spans(wrap_bare_latex_sequences(text)))
      Promoted(text, promote) ==
        Finish(IF promote THEN strip_html_boilerplate(promote_escaped_html(text))
               ELSE text)
      Extracted(x) ==
        Promoted(strip_html_boilerplate(IF x.found THEN simplify_word_export(x.text)
                                        ELSE x.text),
                 promote_entities \/ x.found)
  IN  Extracted(extract_embedded_html(Decode(payload)))

\* ------------------------------------------------------------------------
\* State
\* ------------------------------------------------------------------------
VARIABLES
  frags,             \* the pieces the text under normalization is made of
  html,              \* the text handed to the normalizer (their concatenation)
  fn,                \* the function of preprocess.py that is being applied
  promote_entities,  \* the promote_entities argument of prepare_html
  once,              \* the result of applying fn to html
  twice,             \* the result of applying fn to that result
  applied,           \* how many times fn has been applied (0..2)
  pc,                \* position of the conversion request
  entry,             \* the operation the caller invoked
  payload,           \* the bytes the caller supplied
  original_name,     \* the file name the caller supplied, NoName for None
  content_type_ok,   \* the upload's content type is in ALLOWED_CONTENT_TYPES
  processed,         \* the payload argument of convert_input_bytes
  entered,           \* convert_input_bytes has been entered
  input_file,        \* the HTML written to the work directory for Pandoc
  log,               \* prepare_html runs and Pandoc invocations, in order
  tool_fault,        \* what went wrong in a Pandoc invocation, "none" if nothing
  raised,            \* the exception that left the converter, "none" if none
  result,            \* convert_input_bytes returned a ConversionResult
  status,            \* HTTP status of the /convert response, 0 before it
  flat_html,         \* the text convert_to_flat_html returned
  color_hex,         \* the color argument of _force_heading_colors
  docx,              \* the package at the output path
  original,          \* the package as Pandoc wrote it
  scratch,           \* the scratch directory of the style patcher
  tree,              \* the parsed style definitions
  patch_fault        \* the patcher step that failed, "none" if none

textVars == <<frags, html, fn, promote_entities, once, twice, applied>>

requestVars ==
  <<pc, entry, payload, original_name, content_type_ok, processed, entered,
    input_file, log, tool_fault, raised, result, status, flat_html>>

patchVars == <<color_hex, docx, original, scratch, tree, patch_fault>>

vars == <<textVars, requestVars, patchVars>>

\* ------------------------------------------------------------------------
\* app/converter.py: DOCX packages and the style patcher
\* ------------------------------------------------------------------------
_STYLE_IDS == {"Heading1", "Heading2", "Heading3", "Title"}

_DEFAULT_FONT_COLOR == "000000"

ThemeAttrs == {"themeColor", "themeTint", "themeShade"}

StylesPart == "word/styles.xml"

\* tmp_root / "__styled.docx"
TmpDocx == "__styled.docx"

\* a w:color element: its w:val and the theme attributes it carries
NoColor == [exists |-> FALSE, val |-> "", theme |-> {}]

Color(val, theme) == [exists |-> TRUE, val |-> val, theme |-> theme]

\* a w:rPr element with its first w:color child
NoRPr == [exists |-> FALSE, color |-> NoColor]

RPr(color) == [exists |-> TRUE, color |-> color]

\* a w:pPr element with its first w:rPr child
NoPPr == [exists |-> FALSE, rPr |-> NoRPr]

PPr(rPr) == [exists |-> TRUE, rPr |-> rPr]

\* a w:style element
NoStyle == [exists |-> FALSE, pPr |-> NoPPr, rPr |-> NoRPr]

Style(pPr, rPr) == [exists |-> TRUE, pPr |-> pPr, rPr |-> rPr]

\* _ensure_color that leaves the theme attributes in place
_ensure_color_keeps_theme(parent, hex) ==
  RPr(Color(hex, parent.color.theme))

\* _ensure_color: the w:color child is created when absent, its w:val is
\* set and the theme attributes are removed
_ensure_color(parent, hex) == RPr(Color(hex, {}))

\* _update_style_color: w:pPr, w:pPr/w:rPr and w:rPr are created when absent
_update_style_color(style_element, hex) ==
  Style(PPr(_ensure_color(style_element.pPr.rPr, hex)),
        _ensure_color(style_element.rPr, hex))

\* the loop over _STYLE_IDS: a style that is not found is skipped
UpdateStyles(root, hex) ==
  [id \in DOMAIN root |->
     IF id \in _STYLE_IDS /\ root[id].exists
     THEN _update_style_color(root[id], hex) ELSE root[id]]

\* contents of a package part: opaque bytes, or style definitions (the
\* w:style element of each style id), or bytes that are not well-formed XML
NoTree == [id \in {} |-> NoStyle]

Data(d) == [kind |-> "data", data |-> d, styles |-> NoTree, files |-> {}]

Xml(root) == [kind |-> "xml", data |-> "", styles |-> root, files |-> {}]

Malformed == [kind |-> "malformed", data |-> "<w:styles", styles |-> NoTree, files |-> {}]

\* a zip archive with the given members
Zip(files) == [kind |-> "zip", data |-> "", styles |-> NoTree, files |-> files]

\* a package or a directory: the set of its files
File(name, content) == [name |-> name, content |-> content]

Names(files) == {f.name : f \in files}

Read(files, name) == (CHOOSE f \in files : f.name = name).content

\* the colors a style of a generated package may carry
ExistingColors ==
  { NoColor, Color("2F5496", {}), Color("2F5496", {"themeColor"}),
    Color("auto", ThemeAttrs) }

RPrs == {NoRPr} \cup {RPr(c) : c \in ExistingColors}

PPrs == {NoPPr} \cup {PPr(r) : r \in RPrs}

Styles == {NoStyle} \cup {Style(p, r) : p \in PPrs, r \in RPrs}

ThemedStyle == Style(PPr(RPr(Color("2F5496", {"themeColor"}))), RPr(Color("auto", ThemeAttrs)))

\* style definitions of a generated package
StyleRoots ==
  { [id \in _STYLE_IDS \cup {"Normal"} |->
       CASE id = "Heading1" -> h1
         [] id = "Heading2" -> NoStyle
         [] id = "Heading3" -> h3
         [] id = "Title" -> t
         [] id = "Normal" -> ThemedStyle] :
      h1 \in Styles, h3 \in {NoStyle, Style(NoPPr, NoRPr)}, t \in {NoStyle, ThemedStyle} }

OtherParts ==
  { File("[Content_Types].xml", Data("types")), File("word/document.xml", Data("body")) }

\* the packages the patcher is run on
Packages ==
  {OtherParts} \cup {OtherParts \cup {File(StylesPart, Malformed)}}
    \cup {OtherParts \cup {File(StylesPart, Xml(r))} : r \in StyleRoots}

\* the packages Pandoc writes in the model of a whole request
PandocPackages ==
  { OtherParts,
    OtherParts \cup {File(StylesPart, Malformed)},
    OtherParts \cup {File(StylesPart,
      Xml([id \in _STYLE_IDS \cup {"Normal"} |->
             IF id \in {"Heading1", "Normal"} THEN ThemedStyle ELSE NoStyle]))} }

NoDir == [exists |-> FALSE, files |-> {}]

Dir(files) == [exists |-> TRUE, files |-> files]

\* the variables of a request other than pc and raised
requestRest ==
  <<entry, payload, original_name, content_type_ok, processed, entered,
    input_file, log, tool_fault, result, status, flat_html>>

PatchIdle ==
  /\ color_hex = _DEFAULT_FONT_COLOR
  /\ docx = {}
  /\ original = {}
  /\ scratch = NoDir
  /\ tree = NoTree
  /\ patch_fault = "none"

\* where control goes when _force_heading_colors is left
AfterPatch == IF entry = "_force_heading_colors" THEN "done" ELSE "return"

\* with TemporaryDirectory(...): the package is extracted     (215-218)
PatchExtract ==
  /\ pc = "extract"
  /\ scratch' = Dir(docx)
  /\ pc' = "locate"
  /\ UNCHANGED <<color_hex, docx, original, tree, patch_fault>>
  /\ UNCHANGED <<textVars, requestRest, raised>>

\* the early return of a patcher whose scratch directory comes from
\* tempfile.mkdtemp and is removed only at the end of the function
PatchLocate_keeps_scratch ==
  /\ pc = "locate"
  /\ IF StylesPart \in Names(scratch.files)
     THEN pc' = "parse"
     ELSE pc' = AfterPatch
  /\ UNCHANGED <<color_hex, docx, original, scratch, tree, patch_fault>>
  /\ UNCHANGED <<textVars, requestRest, raised>>

\* if not styles_path.exists(): return                         (220-222)
PatchLocate ==
  /\ pc = "locate"
  /\ IF StylesPart \in Names(scratch.files)
     THEN pc' = "parse" /\ UNCHANGED scratch
     ELSE pc' = AfterPatch /\ scratch' = NoDir
  /\ UNCHANGED <<color_hex, docx, original, tree, patch_fault>>
  /\ UNCHANGED <<textVars, requestRest, raised>>

\* tree = ET.parse(styles_path)                                (224-226)
PatchParse ==
  /\ pc = "parse"
  /\ Read(scratch.files, StylesPart).kind = "xml"
  /\ tree' = Read(scratch.files, StylesPart).styles
  /\ pc' = "update"
  /\ UNCHANGED <<color_hex, docx, original, scratch, patch_fault>>
  /\ UNCHANGED <<textVars, requestRest, raised>>

\* for style_id in self._STYLE_IDS: ...                        (230-234)
PatchUpdate ==
  /\ pc = "update"
  /\ tree' = UpdateStyles(tree, color_hex)
  /\ pc' = "write"
  /\ UNCHANGED <<color_hex, docx, original, scratch, patch_fault>>
  /\ UNCHANGED <<textVars, requestRest, raised>>

\* tree.write(styles_path, ...)                                (236)
PatchWrite ==
  /\ pc = "write"
  /\ scratch' = Dir({f \in scratch.files : f.name # StylesPart}
                      \cup {File(StylesPart, Xml(tree))})
  /\ pc' = "repack"
  /\ UNCHANGED <<color_hex, docx, original, tree, patch_fault>>
  /\ UNCHANGED <<textVars, requestRest, raised>>

\* the files written into the new archive: every file of the scratch
\* directory but the archive itself                            (240-244)
Rebuilt(files) == {f \in files : f.name # TmpDocx}

\* with zipfile.ZipFile(tmp_docx, "w", ...) as new_docx: ...   (238-244)
\* opening the archive for writing creates (or truncates) the file
PatchRepack ==
  /\ pc = "repack"
  /\ LET kept == {f \in scratch.files : f.name # TmpDocx}
         listing == kept \cup {File(TmpDocx, Zip({}))}
     IN  scratch' = Dir(kept \cup {File(TmpDocx, Zip(Rebuilt(listing)))})
  /\ pc' = "replace"
  /\ UNCHANGED <<color_hex, docx, original, tree, patch_fault>>
  /\ UNCHANGED <<textVars, requestRest, raised>>

\* shutil.move(tmp_docx, docx_path): os.rename puts the new archive in the
\* place of the package; the with block then removes the scratch
\* directory                                                   (246)
PatchReplace ==
  /\ pc = "replace"
  /\ docx' = Read(scratch.files, TmpDocx).files
  /\ scratch' = NoDir
  /\ pc' = AfterPatch
  /\ UNCHANGED <<color_hex, original, tree, patch_fault>>
  /\ UNCHANGED <<textVars, requestRest, raised>>

\* shutil.move(tmp_docx, docx_path) when os.rename raises OSError (the
\* destination exists on Windows, or lies on another file system):
\* shutil.move then copies the archive over the package          (246)
PatchRenameRefused ==
  /\ pc = "replace"
  /\ pc' = "copy"
  /\ UNCHANGED <<color_hex, docx, original, scratch, tree, patch_fault>>
  /\ UNCHANGED <<textVars, requestRest, raised>>

\* the copy of shutil.move succeeds and the source is unlinked    (246)
PatchCopy ==
  /\ pc = "copy"
  /\ docx' = Read(scratch.files, TmpDocx).files
  /\ scratch' = NoDir
  /\ pc' = AfterPatch
  /\ UNCHANGED <<color_hex, original, tree, patch_fault>>
  /\ UNCHANGED <<textVars, requestRest, raised>>

\* a package file whose writing stopped part way
Truncated == {File("", Data("truncated"))}

PatchSteps == {"extract", "parse", "update", "write", "repack"}

\* what a caller of _force_heading_colors sees of an exception:
\* _apply_style_overrides swallows it (208-212), a direct caller receives it
Absorbed == IF entry = "_force_heading_colors" THEN "Exception" ELSE raised

\* a step before the replacement raises: the with block removes the
\* scratch directory, the package has only been read         (215-244)
PatchFails ==
  /\ pc \in PatchSteps
  /\ patch_fault' = pc
  /\ scratch' = NoDir
  /\ raised' = Absorbed
  /\ pc' = AfterPatch
  /\ UNCHANGED <<color_hex, docx, original, tree>>
  /\ UNCHANGED <<textVars, requestRest>>

\* shutil.move raises: the copy could not open the package (it is left as
\* it was), stopped while writing it (it is left truncated), or failed
\* after writing it, in copystat or in the unlink of the source (it is
\* left rebuilt)                                               (246)
PatchCopyFails ==
  /\ pc = "copy"
  /\ patch_fault' = "replace"
  /\ docx' \in {docx, Truncated, Read(scratch.files, TmpDocx).files}
  /\ scratch' = NoDir
  /\ raised' = Absorbed
  /\ pc' = AfterPatch
  /\ UNCHANGED <<color_hex, original, tree>>
  /\ UNCHANGED <<textVars, requestRest>>

\* ------------------------------------------------------------------------
\* app/converter.py and app/main.py: a conversion request
\* ------------------------------------------------------------------------
NoName == <<"None">>

FileNames == { NoName, <<"a", ".", "h", "t", "m", "l">>, <<"A", ".", "H", "T", "M">>, <<"a", ".", "d", "o", "c", "x">>, <<"a", ".", "t", "x", "t">> }

Payloads == { << >>, <<" ">>, <<"\n", " ">>, <<"<", "p", ">", "x", "<", "/", "p", ">">>, <<"<", "s", "t", "y", "l", "e", ">", "<", "/", "s", "t", "y", "l", "e", ">">>, <<"P", "K">> }

\* the HTML Pandoc produces from a DOCX file
PandocHtml == { <<"<", "p", ">", "x", "<", "/", "p", ">">> }

MAX_FILE_SIZE_BYTES == 5242880

EndsWith(s, suffix) == HasAt(s, Len(s) - Len(suffix) + 1, suffix)

_detect_extension(name) ==
  IF name = NoName \/ name = << >> THEN <<".", "h", "t", "m", "l">>
  ELSE IF EndsWith(LowerText(name), <<".", "h", "t", "m", "l">>) THEN <<".", "h", "t", "m", "l">>
  ELSE IF EndsWith(LowerText(name), <<".", "h", "t", "m">>) THEN <<".", "h", "t", "m">>
  ELSE IF EndsWith(LowerText(name), <<".", "d", "o", "c", "x">>) THEN <<".", "d", "o", "c", "x">>
  ELSE <<".", "h", "t", "m", "l">>

_should_promote_entities(bytes) ==
  LET snippet == LowerText(Slice(bytes, 1, First({2048, Len(bytes)}, 0) + 1))
  IN  Contains(snippet, <<"&", "l", "t", ";">>) /\ Contains(snippet, <<"&", "g", "t", ";">>)

\* not payload or not payload.strip()
Blank(bytes) == bytes = << >> \/ Strip(bytes) = << >>

\* nothing of a request has happened yet
Fresh ==
  /\ processed = << >>
  /\ entered = FALSE
  /\ input_file = << >>
  /\ log = << >>
  /\ tool_fault = "none"
  /\ raised = "none"
  /\ result = FALSE
  /\ status = 0
  /\ flat_html = << >>

RequestIdle ==
  /\ pc = "idle"
  /\ entry = "none"
  /\ payload = << >>
  /\ original_name = NoName
  /\ content_type_ok = TRUE
  /\ Fresh

TextIdle ==
  /\ frags = << >>
  /\ html = << >>
  /\ fn = "none"
  /\ promote_entities = FALSE
  /\ once = << >>
  /\ twice = << >>
  /\ applied = 0

\* an exception leaves the converter: the /convert handler catches it, any
\* other caller receives it
Raise(kind) ==
  /\ raised' = kind
  /\ pc' = IF entry = "/convert" THEN "respond" ELSE "done"

\* the outcomes of a Pandoc invocation: it works, the binary cannot be run
\* (OSError), it reports an error (RuntimeError), or it reports success
\* without writing the output file
PandocOutcomes == {"ok", "OSError", "RuntimeError", "no_output"}

\* main.py 28-42: convert_html_document up to the call of the converter
ConvertHtmlDocument ==
  /\ pc = "start" /\ entry = "/convert"
  /\ IF ~content_type_ok /\ ~EndsWith(LowerText(original_name), <<".", "d", "o", "c", "x">>)
     THEN status' = 415 /\ pc' = "done" /\ UNCHANGED <<processed, log>>
     ELSE IF Len(payload) > MAX_FILE_SIZE_BYTES
     THEN status' = 413 /\ pc' = "done" /\ UNCHANGED <<processed, log>>
     ELSE /\ status' = status
          /\ pc' = "convert"
          /\ IF \/ EndsWith(LowerText(original_name), <<".", "h", "t", "m", "l">>)
                \/ EndsWith(LowerText(original_name), <<".", "h", "t", "m">>)
             THEN /\ processed' = prepare_html(payload, FALSE)
                  /\ log' = Append(log, "prepare_html")
             ELSE /\ processed' = payload
                  /\ log' = log
  /\ UNCHANGED <<entry, payload, original_name, content_type_ok, entered,
                 input_file, tool_fault, raised, result, flat_html>>
  /\ UNCHANGED <<textVars, patchVars>>

\* a direct call of convert_input_bytes, or convert_to_flat_html 135
Call ==
  /\ pc = "start" /\ entry \in {"convert_input_bytes", "convert_to_flat_html"}
  /\ processed' = payload
  /\ pc' = "convert"
  /\ UNCHANGED <<entry, payload, original_name, content_type_ok, entered,
                 input_file, log, tool_fault, raised, result, status, flat_html>>
  /\ UNCHANGED <<textVars, patchVars>>

\* convert_input_bytes 76-77
CheckPayload ==
  /\ pc = "convert"
  /\ entered' = TRUE
  /\ IF Blank(processed) THEN Raise("InvalidHtmlError")
     ELSE pc' = "detect" /\ raised' = raised
  /\ UNCHANGED <<entry, payload, original_name, content_type_ok, processed,
                 input_file, log, tool_fault, result, status, flat_html>>
  /\ UNCHANGED <<textVars, patchVars>>

\* convert_input_bytes 79-91 and 104-105
ReadInput ==
  /\ pc = "detect"
  /\ LET input_extension == _detect_extension(original_name)
     IN  IF input_extension \in {<<".", "h", "t", "m", "l">>, <<".", "h", "t", "m">>}
         THEN /\ input_file' = prepare_html(processed, _should_promote_entities(processed))
              /\ log' = Append(log, "prepare_html")
              /\ pc' = "to_docx"
              /\ raised' = raised
         ELSE IF input_extension = <<".", "d", "o", "c", "x">>
         THEN /\ pc' = "docx_to_html"
              /\ UNCHANGED <<input_file, log, raised>>
         ELSE /\ Raise("InvalidHtmlError")
              /\ UNCHANGED <<input_file, log>>
  /\ UNCHANGED <<entry, payload, original_name, content_type_ok, processed,
                 entered, tool_fault, result, status, flat_html>>
  /\ UNCHANGED <<textVars, patchVars>>

\* convert_input_bytes 92-103: DOCX -> HTML, outside any try block
DocxToHtml ==
  /\ pc = "docx_to_html"
  /\ \E outcome \in PandocOutcomes :
       \/ /\ outcome = "ok"
          /\ \E h \in PandocHtml : input_file' = prepare_html(h, TRUE)
          /\ log' = log \o <<"pandoc", "prepare_html">>
          /\ pc' = "to_docx"
          /\ UNCHANGED <<tool_fault, raised>>
       \/ /\ outcome = "OSError"
          /\ tool_fault' = "unavailable"
          /\ Raise("OSError")
          /\ log' = Append(log, "pandoc")
          /\ UNCHANGED input_file
       \/ /\ outcome = "RuntimeError"
          /\ tool_fault' = "failed"
          /\ Raise("RuntimeError")
          /\ log' = Append(log, "pandoc")
          /\ UNCHANGED input_file
       \/ /\ outcome = "no_output"
          /\ tool_fault' = "no_output"
          /\ Raise("FileNotFoundError")
          /\ log' = Append(log, "pandoc")
          /\ UNCHANGED input_file
  /\ UNCHANGED <<entry, payload, original_name, content_type_ok, processed,
                 entered, result, status, flat_html>>
  /\ UNCHANGED <<textVars, patchVars>>

\* convert_input_bytes 107-128: the conversion to DOCX, then
\* _apply_style_overrides is entered
ToDocx ==
  /\ pc = "to_docx"
  /\ log' = Append(log, "pandoc")
  /\ \E outcome \in PandocOutcomes :
       \/ /\ outcome = "ok"
          /\ \E package \in PandocPackages : docx' = package /\ original' = package
          /\ color_hex' = _DEFAULT_FONT_COLOR
          /\ pc' = "extract"
          /\ UNCHANGED <<tool_fault, raised>>
       \/ /\ outcome = "OSError"
          /\ tool_fault' = "unavailable"
          /\ Raise("PandocNotInstalledError")
          /\ UNCHANGED <<docx, original, color_hex>>
       \/ /\ outcome = "RuntimeError"
          /\ tool_fault' = "failed"
          /\ Raise("ConversionFailedError")
          /\ UNCHANGED <<docx, original, color_hex>>
       \/ /\ outcome = "no_output"
          /\ tool_fault' = "no_output"
          /\ Raise("ConversionFailedError")
          /\ UNCHANGED <<docx, original, color_hex>>
  /\ UNCHANGED <<entry, payload, original_name, content_type_ok, processed,
                 entered, input_file, result, status, flat_html>>
  /\ UNCHANGED <<textVars, scratch, tree, patch_fault>>

\* convert_input_bytes 130
Return ==
  /\ pc = "return"
  /\ result' = TRUE
  /\ pc' = CASE entry = "convert_to_flat_html" -> "flat"
             [] entry = "/convert" -> "respond"
             [] OTHER -> "done"
  /\ UNCHANGED <<entry, payload, original_name, content_type_ok, processed,
                 entered, input_file, log, tool_fault, raised, status, flat_html>>
  /\ UNCHANGED <<textVars, patchVars>>

\* convert_to_flat_html 137-153: DOCX -> HTML, then normalization
ConvertBack ==
  /\ pc = "flat"
  /\ \E outcome \in {"ok", "OSError", "RuntimeError"} :
       \/ /\ outcome = "ok"
          /\ \E h \in PandocHtml : flat_html' = prepare_html(h, TRUE)
          /\ log' = log \o <<"pandoc", "prepare_html">>
          /\ pc' = "done"
          /\ UNCHANGED <<tool_fault, raised>>
       \/ /\ outcome = "OSError"
          /\ tool_fault' = "unavailable"
          /\ Raise("PandocNotInstalledError")
          /\ log' = Append(log, "pandoc")
          /\ UNCHANGED flat_html
       \/ /\ outcome = "RuntimeError"
          /\ tool_fault' = "failed"
          /\ Raise("ConversionFailedError")
          /\ log' = Append(log, "pandoc")
          /\ UNCHANGED flat_html
  /\ UNCHANGED <<entry, payload, original_name, content_type_ok, processed,
                 entered, input_file, result, status>>
  /\ UNCHANGED <<textVars, patchVars>>

\* main.py 43-56: the response of /convert
Respond ==
  /\ pc = "respond"
  /\ status' = CASE raised = "none" -> 200
                 [] raised = "InvalidHtmlError" -> 400
                 [] OTHER -> 500
  /\ pc' = "done"
  /\ UNCHANGED <<entry, payload, original_name, content_type_ok, processed,
                 entered, input_file, log, tool_fault, raised, result, flat_html>>
  /\ UNCHANGED <<textVars, patchVars>>

Entries == {"/convert", "convert_input_bytes", "convert_to_flat_html"}

Init ==
  /\ TextIdle
  /\ PatchIdle
  /\ pc = "start"
  /\ entry \in Entries
  /\ payload \in Payloads
  /\ original_name \in FileNames
  /\ content_type_ok \in BOOLEAN
  /\ entry = "/convert" => original_name # NoName
  /\ entry # "/convert" => content_type_ok
  /\ Fresh

PatchNext ==
  \/ PatchExtract
  \/ PatchLocate
  \/ PatchParse
  \/ PatchUpdate
  \/ PatchWrite
  \/ PatchRepack
  \/ PatchReplace
  \/ PatchRenameRefused
  \/ PatchCopy
  \/ PatchFails
  \/ PatchCopyFails

Next ==
  \/ ConvertHtmlDocument
  \/ Call
  \/ CheckPayload
  \/ ReadInput
  \/ DocxToHtml
  \/ ToDocx
  \/ PatchNext
  \/ Return
  \/ ConvertBack
  \/ Respond

Spec == Init /\ [][Next]_vars

PatchColors == {_DEFAULT_FONT_COLOR, "FF0000"}

\* _force_heading_colors(docx_path, color_hex) called on a package
InitPatch ==
  /\ TextIdle
  /\ pc = "extract"
  /\ entry = "_force_heading_colors"
  /\ payload = << >>
  /\ original_name = NoName
  /\ content_type_ok = TRUE
  /\ Fresh
  /\ color_hex \in PatchColors
  /\ docx \in Packages
  /\ original = docx
  /\ scratch = NoDir
  /\ tree = NoTree
  /\ patch_fault = "none"

SpecPatch == InitPatch /\ [][PatchNext]_vars
RECURSIVE ConcatFrom(_, _)
ConcatFrom(fs, k) == IF k > Len(fs) THEN << >> ELSE fs[k] \o ConcatFrom(fs, k + 1)

Concat(fs) == ConcatFrom(fs, 1)

SeqsUpTo(S, n) == UNION {[1..k -> S] : k \in 0..n}

TextInit(lists) ==
  /\ frags \in lists
  /\ html = Concat(frags)
  /\ fn = "none"
  /\ promote_entities = FALSE
  /\ once = << >>
  /\ twice = << >>
  /\ applied = 0
  /\ RequestIdle
  /\ PatchIdle

\* fn(html) on the first application, fn(fn(html)) on the second
Apply(name, f(_)) ==
  \/ /\ applied = 0
     /\ fn' = name
     /\ once' = f(html)
     /\ applied' = 1
     /\ UNCHANGED <<frags, html, twice, requestVars, patchVars>>
  \/ /\ applied = 1
     /\ fn = name
     /\ twice' = f(once)
     /\ applied' = 2
     /\ UNCHANGED <<frags, html, fn, once, requestVars, patchVars>>

\* ------------------------------------------------------------------------
\* The normalizer applied to documents with boilerplate, escaped markup and
\* bare LaTeX
\* ------------------------------------------------------------------------
BoilerFrags ==
  { <<"<", "!", "D", "O", "C">>, <<"T", "Y", "P", "E", ">">>, <<"<", "!", "D", "O", "C", "T", "Y", "P", "E", " ", "h", "t", "m", "l", ">">>, <<"<", "p", ">", "x", "<", "/", "p", ">">>, <<"&", "l", "t", ";", "b", " ">>, <<"&", "a", "m", "p", ";", "l", "t", ";", "i", "&", "a", "m", "p", ";", "g", "t", ";">>,
    <<"&", "g", "t", ";">> }

Pads == { << >>, <<" ">>, <<"\n", " ">> }

WordsBefore == { <<"t", "e", "x", "t", " ", "w", "i", "t", "h", " ">>, <<"a", " ">> }

WordsAfter == { <<" ", "i", "n", "l", "i", "n", "e">>, <<" ", "b">> }

LatexExprs == { <<"\\", "f", "r", "a", "c", "{", "1", "}", "{", "2", "}">>, <<"\\", "A", "L", "P", "H", "A">>, <<"\\", "s", "q", "r", "t", "{", "x", "}">> }

\* <p> w1 a l b w2 </p>: plain words a, b around a bare LaTeX expression l
LatexLists ==
  { << <<"<", "p", ">">>, w1, a, l, b, w2, <<"<", "/", "p", ">">> >> :
      w1 \in Pads, a \in WordsBefore, l \in LatexExprs, b \in WordsAfter, w2 \in Pads }

PrepareFirst ==
  /\ applied = 0
  /\ \E flag \in BOOLEAN :
       /\ promote_entities' = flag
       /\ fn' = "prepare_html"
       /\ once' = prepare_html(html, flag)
  /\ applied' = 1
  /\ UNCHANGED <<frags, html, twice, requestVars, patchVars>>

PrepareAgain ==
  /\ applied = 1
  /\ fn = "prepare_html"
  /\ twice' = prepare_html(once, promote_entities)
  /\ applied' = 2
  /\ UNCHANGED <<frags, html, fn, promote_entities, once, requestVars, patchVars>>

InitPrepare == TextInit(SeqsUpTo(BoilerFrags, MaxFrags) \cup LatexLists)

NextPrepare == PrepareFirst \/ PrepareAgain

SpecPrepare == InitPrepare /\ [][NextPrepare]_vars

\* ------------------------------------------------------------------------
\* Properties of prepare_html
\* ------------------------------------------------------------------------

\* an opening <span ... class="...math-tex..." ...> tag starts at position i
MathSpanTagAt(s, i) ==
  HasAtI(s, i, <<"<", "s", "p", "a", "n">>) /\ \E a \in (i + 5)..Len(s) : MathSpanTagClose(s, i, a) # 0

HasMathSpanTag(s) == \E i \in 1..Len(s) : MathSpanTagAt(s, i)

\* nothing is left in s for a pass of the normalizer to act on
NothingToNormalize(s) ==
  /\ FindI(s, <<"&", "l", "t", ";">>, 1) = 0
  /\ \A i \in 1..Len(s) : DOCTYPE_PATTERN(s, i).end = 0 /\ STYLE_BLOCK_PATTERN(s, i).end = 0
  /\ ~HasMathSpanTag(s)
  /\ ~LATEX_KEYWORD_PATTERN(s)

PlainInput == ~HasMathSpanTag(html) /\ ~LATEX_KEYWORD_PATTERN(html)

C8_OnlyExpressionWrapped ==
  (fn = "prepare_html" /\ applied >= 1 /\ frags \in LatexLists) =>
    once = frags[1] \o frags[2] \o frags[3] \o <<"\\", "(">> \o frags[4] \o <<"\\", ")">>
             \o frags[5] \o frags[6] \o frags[7]

\* C8 (amended): the whole trimmed text node, the words a and b included, is
\* put between \( and \); the leading and trailing whitespace of the text
\* node stays outside the delimiters, unchanged.
C8_WholeNodeWrapped ==
  (fn = "prepare_html" /\ applied >= 1 /\ frags \in LatexLists) =>
    once = frags[1] \o frags[2] \o <<"\\", "(">> \o frags[3] \o frags[4] \o frags[5] \o <<"\\", ")">>
             \o frags[6] \o frags[7]

\* a text node with whitespace on both sides has been normalized
C8_Witness ==
  /\ fn = "prepare_html" /\ applied >= 1 /\ frags \in LatexLists
  /\ frags[2] # << >> /\ frags[6] # << >>
  /\ once = frags[1] \o frags[2] \o <<"\\", "(">> \o frags[3] \o frags[4] \o frags[5] \o <<"\\", ")">>
              \o frags[6] \o frags[7]

\* ------------------------------------------------------------------------
\* normalize_math_spans applied to texts with span elements
\* ------------------------------------------------------------------------
MathOpen == <<"<", "s", "p", "a", "n", " ", "c", "l", "a", "s", "s", "=", "\"", "m", "a", "t", "h", "-", "t", "e", "x", "\"", ">">>

MathClose == <<"<", "/", "s", "p", "a", "n", ">">>

PlainFrags == { <<"a", " ">> }

\* complete span elements, each with the text that replaces it
SpanUnits ==
  { [src |-> <<"<", "s", "p", "a", "n", " ", "c", "l", "a", "s", "s", "=", "\"", "m", "a", "t", "h", "-", "t", "e", "x", "\"", ">", " ", "x", " ", "<", "/", "s", "p", "a", "n", ">">>, dst |-> <<"\\", "(", "x", "\\", ")">>],
    [src |-> <<"<", "s", "p", "a", "n", " ", "c", "l", "a", "s", "s", "=", "\"", "m", "a", "t", "h", "-", "t", "e", "x", "\"", ">", "$", "q", "$", "<", "/", "s", "p", "a", "n", ">">>, dst |-> <<"$", "q", "$">>],
    [src |-> <<"<", "S", "P", "A", "N", " ", "C", "L", "A", "S", "S", "=", "\"", "t", " ", "m", "a", "t", "h", "-", "t", "e", "x", "\"", ">", "\\", "(", "r", "\\", ")", "<", "/", "S", "P", "A", "N", ">">>, dst |-> <<"\\", "(", "r", "\\", ")">>],
    [src |-> <<"<", "s", "p", "a", "n", ">", "c", "<", "/", "s", "p", "a", "n", ">">>, dst |-> <<"<", "s", "p", "a", "n", ">", "c", "<", "/", "s", "p", "a", "n", ">">>] }

UnitFrags == {u.src : u \in SpanUnits}

MathFrags == PlainFrags \cup UnitFrags \cup {MathOpen, MathClose}

\* span tags of the pieces fs[k..] are balanced, starting at nesting depth d
RECURSIVE Balanced(_, _, _)
Balanced(fs, k, d) ==
  IF k > Len(fs) THEN d = 0
  ELSE IF fs[k] = MathOpen THEN Balanced(fs, k + 1, d + 1)
  ELSE IF fs[k] = MathClose THEN d > 0 /\ Balanced(fs, k + 1, d - 1)
  ELSE Balanced(fs, k + 1, d)

\* ... and no span element lies inside another
RECURSIVE Flat(_, _, _)
Flat(fs, k, d) ==
  IF k > Len(fs) THEN d = 0
  ELSE IF fs[k] = MathOpen THEN d = 0 /\ Flat(fs, k + 1, 1)
  ELSE IF fs[k] = MathClose THEN d = 1 /\ Flat(fs, k + 1, 0)
  ELSE IF fs[k] \in UnitFrags THEN d = 0 /\ Flat(fs, k + 1, 0)
  ELSE Flat(fs, k + 1, d)

\* \(E\) for the trimmed inner text E, E alone when it starts with $ or \(
InlineMath(inner) ==
  LET E == Strip(inner)
  IN  IF HasAt(E, 1, <<"$">>) \/ HasAt(E, 1, <<"\\", "(">>) THEN E ELSE <<"\\", "(">> \o E \o <<"\\", ")">>

\* what the claim expects of a flat list of pieces: text outside the
\* math-tex spans unchanged, every math-tex span replaced
RECURSIVE Expected(_, _)
Expected(fs, k) ==
  IF k > Len(fs) THEN << >>
  ELSE IF fs[k] = MathOpen
    THEN LET j == First({n \in (k + 1)..Len(fs) : fs[n] = MathClose}, 0)
         IN  InlineMath(Concat(SubSeq(fs, k + 1, j - 1))) \o Expected(fs, j + 1)
  ELSE IF fs[k] \in UnitFrags
    THEN (CHOOSE u \in SpanUnits : u.src = fs[k]).dst \o Expected(fs, k + 1)
  ELSE fs[k] \o Expected(fs, k + 1)

NormalizeMath == Apply("normalize_math_spans", normalize_math_spans)

InitMath == TextInit(SeqsUpTo(MathFrags, MaxFrags))

NextMath == NormalizeMath /\ UNCHANGED promote_entities

SpecMath == InitMath /\ [][NextMath]_vars

\* C7 (as stated): after the pass over a text whose span elements are
\* balanced, no math-tex span tag remains.
C7_NoMathSpanLeft ==
  (fn = "normalize_math_spans" /\ applied >= 1 /\ Balanced(frags, 1, 0))
    => ~HasMathSpanTag(once)

\* C7 (amended): when no span element lies inside another, every math-tex
\* span is replaced by \(E\), or by E alone when E starts with $ or \(, for
\* its trimmed inner text E; no math-tex span tag remains and the text
\* outside the spans is unchanged.
C7_FlatSpansNormalized ==
  (fn = "normalize_math_spans" /\ applied >= 1 /\ Flat(frags, 1, 0))
    => (once = Expected(frags, 1) /\ ~HasMathSpanTag(once))

\* two math-tex spans with text between them have been replaced
C7_Witness ==
  /\ fn = "normalize_math_spans" /\ applied >= 1 /\ Flat(frags, 1, 0)
  /\ Len(frags) = 3 /\ frags[1] \in UnitFrags /\ frags[2] \in PlainFrags
  /\ frags[3] \in UnitFrags
  /\ HasMathSpanTag(html)
  /\ once = Expected(frags, 1) /\ once # html

\* ------------------------------------------------------------------------
\* promote_escaped_html applied to texts with entity-escaped tags
\* ------------------------------------------------------------------------
EscapedScript == <<"&", "l", "t", ";", "s", "c", "r", "i", "p", "t", "&", "g", "t", ";">>

EscapedFrags ==
  { <<"&", "l", "t", ";", "p", "&", "g", "t", ";">>, <<"h", "e", "l", "l", "o">>, <<"&", "l", "t", ";", "/", "P", "&", "g", "t", ";">>, EscapedScript, <<"a", " ", "&", "l", "t", ";", " ", "b", " ", "a", "n", "d", " ">>, <<"&", "a", "m", "p", ";">> }

\* the number of positions of s at which lit occurs (IGNORECASE)
Count(s, lit) == Cardinality({j \in 1..Len(s) : HasAtI(s, j, lit)})

PromoteEscaped == Apply("promote_escaped_html", promote_escaped_html)

InitPromote == TextInit(SeqsUpTo(EscapedFrags, MaxFrags))

NextPromote == PromoteEscaped /\ UNCHANGED promote_entities

SpecPromote == InitPromote /\ [][NextPromote]_vars

\* C9: after promotion no escaped <p> or </p> tag is left (each became the
\* literal tag), and every escaped <script> tag of the input is still there,
\* still escaped.
C9_AllowListOnly ==
  (fn = "promote_escaped_html" /\ applied >= 1) =>
    /\ Count(once, <<"&", "l", "t", ";", "p", "&", "g", "t", ";">>) = 0
    /\ Count(once, <<"&", "l", "t", ";", "/", "p", "&", "g", "t", ";">>) = 0
    /\ Count(once, EscapedScript) = Count(html, EscapedScript)

\* ------------------------------------------------------------------------
\* simplify_word_export applied to a paragraph that wraps one block element
\* ------------------------------------------------------------------------
ParagraphTags == { <<"<", "p", ">">>, <<"<", "p", " ", "c", "l", "a", "s", "s", "=", "\"", "M", "s", "o", "N", "o", "r", "m", "a", "l", "\"", ">">>, <<"<", "p", " ", "c", "l", "a", "s", "s", "=", "M", "s", "o", "N", "o", "r", "m", "a", "l", ">">> }

BlockTags ==
  { <<<<"<", "h", "1", ">">>, <<"<", "/", "h", "1", ">">>>>, <<<<"<", "h", "1", " ", "s", "t", "y", "l", "e", "=", "\"", "m", "s", "o", "-", "x", "\"", ">">>, <<"<", "/", "h", "1", ">">>>>, <<<<"<", "d", "i", "v", ">">>, <<"<", "/", "d", "i", "v", ">">>>>,
    <<<<"<", "L", "I", ">">>, <<"<", "/", "L", "I", ">">>>>, <<<<"<", "t", "a", "b", "l", "e", ">">>, <<"<", "/", "t", "a", "b", "l", "e", ">">>>> }

BlockContents == { <<"T", "i", "t", "l", "e">>, <<"a", " ", "<", "b", ">", "b", "<", "/", "b", ">">>, <<"M", "s", "o", " ", "x">> }

Gaps == { << >>, <<" ">> }

\* P w1 <block> content </block> w2 </p>
WordLists ==
  { <<p, w1, b[1], c, b[2], w2, <<"<", "/", "p", ">">>>> :
      p \in ParagraphTags, w1 \in Gaps, b \in BlockTags, c \in BlockContents,
      w2 \in Gaps }

\* the block element of such a list
Block(fs) == fs[3] \o fs[4] \o fs[5]

\* the text carries the marker of a Word export
Marked(s) == Contains(s, <<"M", "s", "o">>) \/ Contains(s, <<"m", "s", "o", "-">>)

SimplifyWordExport == Apply("simplify_word_export", simplify_word_export)

InitWord == TextInit(WordLists)

NextWord == SimplifyWordExport /\ UNCHANGED promote_entities

SpecWord == InitWord /\ [][NextWord]_vars

HasStyles(files) ==
  StylesPart \in Names(files) /\ Read(files, StylesPart).kind = "xml"

\* the color element is explicit: value hex, no theme attribute
Forced(rPr, hex) ==
  rPr.exists /\ rPr.color.exists /\ rPr.color.val = hex /\ rPr.color.theme = {}

\* the parts of a package other than the style definitions
Others(files) == {f \in files : f.name # StylesPart}

\* _force_heading_colors has returned without an exception, having rewritten
\* the package
Patched == pc = "done" /\ patch_fault = "none" /\ HasStyles(original)

\* C1: a request whose payload is empty or whitespace-only, once it has
\* entered convert_input_bytes, is rejected with InvalidHtmlError and
\* neither prepare_html nor Pandoc has run for it, on every entry path.
C1_RejectedBeforeAnyTransform ==
  (entered /\ Blank(payload)) =>
    /\ raised = "InvalidHtmlError"
    /\ log = << >>

\* C2: after a successful run of the patcher with color_hex, every target
\* style the original style definitions contain has an explicit color
\* color_hex without theme attributes in its paragraph run properties and
\* in its own run properties, and every other part is as in the original.
C2_TargetStylesForced ==
  Patched =>
    /\ HasStyles(docx)
    /\ \A id \in _STYLE_IDS :
         Read(original, StylesPart).styles[id].exists =>
           LET style == Read(docx, StylesPart).styles[id]
           IN  /\ style.exists
               /\ style.pPr.exists
               /\ Forced(style.pPr.rPr, color_hex)
               /\ Forced(style.rPr, color_hex)
    /\ Others(docx) = Others(original)

C2_Witness ==
  /\ Patched
  /\ color_hex = "FF0000"
  /\ LET before == Read(original, StylesPart).styles
     IN  /\ before["Heading1"].exists
         /\ ~before["Heading1"].pPr.exists
         /\ before["Heading1"].rPr.color.theme # {}
         /\ before["Title"].exists
  /\ docx # original

\* C3: when the style definitions are missing or a step of the patcher
\* fails, the package is as it was before the patch, no exception leaves
\* _apply_style_overrides and convert_input_bytes returns a result.
C3_PackageUntouchedOnFailure ==
  (/\ entry \in Entries
   /\ pc \in {"return", "flat", "respond", "done"}
   /\ original # {}
   /\ (StylesPart \notin Names(original) \/ patch_fault # "none")) =>
    /\ docx = original
    /\ (pc = "return" => raised = "none")
    /\ (pc # "return" => result)

\* C4: when Pandoc cannot be run the caller receives
\* PandocNotInstalledError, and when it reports an error or writes no
\* output file the caller receives ConversionFailedError, for every
\* invocation and every input type.
C4_DistinctErrorKinds ==
  /\ tool_fault = "unavailable" => raised = "PandocNotInstalledError"
  /\ tool_fault \in {"failed", "no_output"} => raised = "ConversionFailedError"

\* the name carries an extension other than .html, .htm and .docx
Unrecognized(name) ==
  /\ name # NoName
  /\ ~EndsWith(LowerText(name), <<".", "h", "t", "m", "l">>)
  /\ ~EndsWith(LowerText(name), <<".", "h", "t", "m">>)
  /\ ~EndsWith(LowerText(name), <<".", "d", "o", "c", "x">>)

\* C5: a non-empty payload whose file name has an unrecognized type is
\* rejected by convert_input_bytes with InvalidHtmlError, and neither
\* prepare_html nor Pandoc runs for it.
C5_UnrecognizedTypeRejected ==
  (/\ Unrecognized(original_name)
   /\ ~Blank(processed)
   /\ pc \notin {"start", "convert", "detect"}
   /\ entered) =>
    /\ raised = "InvalidHtmlError"
    /\ log = << >>

\* ------------------------------------------------------------------------
\* prepare_html applied to Word exports: a paragraph that wraps one block
\* element, as it stands or entity-escaped inside an embedded document
\* ------------------------------------------------------------------------
EscapedParagraphTags == { <<"&", "l", "t", ";", "p", "&", "g", "t", ";">>, <<"&", "l", "t", ";", "p", " ", "c", "l", "a", "s", "s", "=", "M", "s", "o", "N", "o", "r", "m", "a", "l", "&", "g", "t", ";">> }

EscapedBlockTags ==
  { <<<<"&", "l", "t", ";", "h", "1", "&", "g", "t", ";">>, <<"&", "l", "t", ";", "/", "h", "1", "&", "g", "t", ";">>>>, <<<<"&", "l", "t", ";", "d", "i", "v", "&", "g", "t", ";">>, <<"&", "l", "t", ";", "/", "d", "i", "v", "&", "g", "t", ";">>>> }

\* &lt;html&gt; P <block> content </block> </p> &lt;/html&gt;, entity-escaped
EmbeddedLists ==
  { <<<<"&", "l", "t", ";", "h", "t", "m", "l", "&", "g", "t", ";">>, p, b[1], c, b[2], <<"&", "l", "t", ";", "/", "p", "&", "g", "t", ";">>, <<"&", "l", "t", ";", "/", "h", "t", "m", "l", "&", "g", "t", ";">>>> :
      p \in EscapedParagraphTags, b \in EscapedBlockTags, c \in BlockContents }

\* the list is an embedded document (extract_embedded_html finds it)
Embedded(fs) == fs \in EmbeddedLists

\* the working text of step 2: the extracted document, or the payload
Working(s) == extract_embedded_html(Decode(s)).text

\* the text with the paragraph around the block element removed
Simplified(fs) ==
  IF Embedded(fs) THEN <<"<", "h", "t", "m", "l", ">">> \o Unescape(Block(fs)) \o <<"<", "/", "h", "t", "m", "l", ">">> ELSE Block(fs)

InitStage == TextInit(WordLists \cup EmbeddedLists)

SpecStage == InitStage /\ [][NextPrepare]_vars

\* C11: when an embedded document was extracted or the working text carries
\* the marker "Mso" / "mso-", the simplification has taken effect: the
\* paragraph around the block element is gone from the result.
C11_SimplifiedWhenEmbeddedOrMarked ==
  (fn = "prepare_html" /\ applied >= 1
     /\ (extract_embedded_html(Decode(html)).found \/ Marked(Working(html))))
    => once = Simplified(frags)

\* ------------------------------------------------------------------------
\* The scratch directory of the patcher
\* ------------------------------------------------------------------------
\* control is inside _force_heading_colors
InPatcher == pc \in PatchSteps \cup {"locate", "replace", "copy"}

\* C12: whenever control is outside _force_heading_colors (it has returned
\* normally, returned early for want of style definitions, or raised at any
\* step) the scratch directory and everything in it, the rebuilt archive
\* included, no longer exists.
C12_ScratchRemovedOnExit == ~InPatcher => scratch = NoDir

\* the patcher has rebuilt the archive in its scratch directory, the
\* replacement of the package has failed, and the directory is gone
C12_Witness ==
  /\ ~InPatcher
  /\ patch_fault = "replace"
  /\ original # {}
  /\ scratch = NoDir

\* ------------------------------------------------------------------------
\* The loop of simplify_word_export._strip_wrappers, one step per statement
\*   once  = value, twice = new_value, applied = the number of passes that
\*   changed the text
\* ------------------------------------------------------------------------
MaxDepth == 2

StripBlocks ==
  { <<<<"<", "h", "1", ">">>, <<"<", "/", "h", "1", ">">>>>, <<<<"<", "d", "i", "v", " ", "c", "l", "a", "s", "s", "=", "\"", "a", "\"", ">">>, <<"<", "/", "d", "i", "v", ">">>>>, <<<<"<", "L", "I", ">">>, <<"<", "/", "l", "i", ">">>>> }

StripContents == { <<"T", "i", "t", "l", "e">>, <<"<", "p", ">", "x", "<", "/", "p", ">">> }

\* content c inside k paragraphs, each wrapping a block element b with the
\* whitespace w around it
RECURSIVE Nest(_, _, _, _)
Nest(k, b, w, c) ==
  IF k = 0 THEN c
  ELSE <<"<", "p", ">">> \o w \o b[1] \o Nest(k - 1, b, w, c) \o b[2] \o w \o <<"<", "/", "p", ">">>

\* texts in which paragraphs wrap block elements up to MaxDepth levels deep
StripTexts ==
  { Nest(k, b, w, c) :
      k \in 0..MaxDepth, b \in StripBlocks, w \in Gaps, c \in StripContents }

\* _strip_wrappers(value) is called                                   (181)
StripCall ==
  /\ pc = "idle"
  /\ fn = "none"
  /\ fn' = "_strip_wrappers"
  /\ once' = html
  /\ pc' = "strip_sub"
  /\ UNCHANGED <<frags, html, promote_entities, twice, applied>>
  /\ UNCHANGED <<requestRest, raised, patchVars>>

\* new_value = BLOCK_IN_P_PATTERN.sub(r"\1", value)                    (183)
StripSubstitute ==
  /\ pc = "strip_sub"
  /\ twice' = Sub(BLOCK_IN_P_PATTERN, once)
  /\ pc' = "strip_compare"
  /\ UNCHANGED <<frags, html, fn, promote_entities, once, applied>>
  /\ UNCHANGED <<requestRest, raised, patchVars>>

\* a loop that compares new_value with the text it was first called with
StripBreak_against_argument ==
  /\ pc = "strip_compare"
  /\ twice = html
  /\ pc' = "strip_return"
  /\ UNCHANGED <<textVars, requestRest, raised, patchVars>>

\* if new_value == value: break                                   (184-185)
StripBreak ==
  /\ pc = "strip_compare"
  /\ twice = once
  /\ pc' = "strip_return"
  /\ UNCHANGED <<textVars, requestRest, raised, patchVars>>

\* value = new_value                                                   (186)
StripAssign ==
  /\ pc = "strip_compare"
  /\ twice # once
  /\ once' = twice
  /\ applied' = applied + 1
  /\ pc' = "strip_sub"
  /\ UNCHANGED <<frags, html, fn, promote_entities, twice>>
  /\ UNCHANGED <<requestRest, raised, patchVars>>

InitStrip == TextInit({ <<x>> : x \in StripTexts })

NextStrip == StripCall \/ StripSubstitute \/ StripBreak \/ StripAssign

\* the interpreter keeps executing the statements of the one thread
SpecStrip == InitStrip /\ [][NextStrip]_vars /\ WF_vars(NextStrip)

\* C13: a pass of the loop that changes the text strictly shortens it, the
\* loop reaches its return for every input text, and what it returns is the
\* fixed point that simplify_word_export goes on with.
C13_StripWrappersTerminates ==
  /\ []((pc = "strip_compare" /\ twice # once) => Len(twice) < Len(once))
  /\ []((pc = "strip_return") => (once = _strip_wrappers(html)
                                   /\ Sub(BLOCK_IN_P_PATTERN, once) = once))
  /\ <>(pc = "strip_return")

\* the loop has returned after two passes that each unwrapped a paragraph
C13_Witness ==
  /\ pc = "strip_return"
  /\ fn = "_strip_wrappers"
  /\ applied = 2
  /\ Len(once) < Len(html)

====
